---- MODULE Spec2Model ----
(***************************************************************************)
(* The web-of-trust key ring of Peerster (package awot): the signing graph, *)
(* the key table, the pending queue and the periodic updater.               *)
(*                                                                          *)
(* Probabilities and confidences are float32 in the program; here they are  *)
(* exact rationals <<numerator, denominator>> in lowest terms.              *)
(***************************************************************************)
EXTENDS Integers, Sequences, FiniteSets, TLC

\* ------------------------------------------------------------------ bounds
MaxCalls == 2

\* ------------------------------------------------------------ input domains
Names == {"R", "B", "C", "D"}
Source == "R"
\* An rsa.PublicKey is <<N, E>>.
K1 == <<11, 65537>>
K2 == <<13, 65537>>
Keys == {K1, K2}
\* Two keys of one modulus whose exponents are surrogate code points.
K3 == <<11, 55296>>
K4 == <<11, 57343>>
SourceKey == <<17, 65537>>
ZeroKey == <<0, 0>>       \* rsa.PublicKey{}
NilKey == <<>>            \* a nil *rsa.PublicKey
BadBytes == <<-1, -1>>    \* key bytes DeserializeKey rejects

\* ---------------------------------------------------------------- rationals
RECURSIVE GCD(_, _)
GCD(a, b) == IF b = 0 THEN a ELSE GCD(b, a % b)

Rat(n, d) == LET g == GCD(n, d) IN <<n \div g, d \div g>>
Zero == Rat(0, 1)
Quarter == Rat(1, 4)
Half == Rat(1, 2)
NineTenths == Rat(9, 10)
One == Rat(1, 1)
RMul(a, b) == Rat(a[1] * b[1], a[2] * b[2])
RCompl(a) == Rat(a[2] - a[1], a[2])
RLt(a, b) == a[1] * b[2] < b[1] * a[2]
RMin(a, b) == IF RLt(b, a) THEN b ELSE a
RInv(d) == Rat(1, d)
RDouble(a) == Rat(2 * a[1], a[2])

\* ------------------------------------------------------------------- state
VARIABLES
  ids,        \* ring.ids: name -> node id
  nodes,      \* the node ids of ring.graph
  prob,       \* node id -> *probability (the cell the Node copies share)
  edges,      \* <<from id, to id>> -> Edge.Key
  nextNode,   \* ring.nextNode
  table,      \* ring.keyTable: name -> [KeyPub, Confidence]
  pending,    \* ring.pending, front first
  threshold,  \* ring.threshold
  stopped,    \* ring.stopped
  worker,     \* where the updater goroutine stands
  reptable,   \* the worker's ReputationTable argument: "nil" or "table"
  boot,       \* the trustedRecords NewKeyRing was given
  added,      \* the names keyTable.add has been called for
  nCalls,     \* calls made by callers so far
  last,       \* the operation that ran last, with its arguments
  s6,         \* monitor of the pending-replay scenario
  mutex,      \* ring.mutex: "free" or the thread that holds it
  pendingMutex, \* ring.pendingMutex: "free" or the thread that holds it
  calls,      \* caller thread -> the call it is in: position, arguments, locals
  wk,         \* the locals of the worker goroutine inside a tick
  tableMutex, \* the key table's own lock: "free" or the thread that holds it
  ops         \* thread -> the calls and lock operations it still has to make

ringVars == <<ids, nodes, prob, edges, nextNode, table, pending>>
\* what only the specification with interleaved threads moves
concVars == <<mutex, pendingMutex, calls, wk, tableMutex, ops>>
vars == <<ids, nodes, prob, edges, nextNode, table, pending, threshold, stopped,
          worker, reptable, boot, added, nCalls, last, s6, mutex, pendingMutex,
          calls, wk, tableMutex, ops>>

\* The graph part of a ring, as a value the operations below transform.
Graph == [ids |-> ids, nodes |-> nodes, prob |-> prob, edges |-> edges,
          nextNode |-> nextNode]

\* -------------------------------------------------------------- the graph
\* path.DijkstraFrom / DijkstraAllPaths with unit weights: hop distance from
\* the start node, -1 standing for +Inf (no path).
RECURSIVE Dijkstra(_, _, _, _)
Dijkstra(g, frontier, d, dist) ==
  IF frontier = {} THEN dist
  ELSE LET dist2 == [v \in g.nodes |-> IF v \in frontier THEN d ELSE dist[v]]
           next == {v \in g.nodes : dist2[v] = -1
                       /\ \E u \in frontier : <<u, v>> \in DOMAIN g.edges}
       IN Dijkstra(g, next, d + 1, dist2)

DijkstraFrom(g, s) == Dijkstra(g, {s}, 0, [v \in g.nodes |-> -1])

\* path.DijkstraAllPaths, of which only the paths from the source are read:
\* the hop distances from s
DijkstraAllPaths(g, s) == DijkstraFrom(g, s)

\* AllShortest.AllBetween: every shortest path from s to t as a sequence of
\* node ids; <<s>> alone when t = s; none when t is unreachable.
RECURSIVE AllBetween(_, _, _, _)
AllBetween(g, allShortest, s, t) ==
  IF t = s THEN {<<s>>}
  ELSE IF allShortest[t] = -1 THEN {}
  ELSE UNION {{Append(p, t) : p \in AllBetween(g, allShortest, s, u)} :
                u \in {u \in g.nodes : allShortest[u] # -1
                                        /\ allShortest[u] + 1 = allShortest[t]
                                        /\ <<u, t>> \in DOMAIN g.edges}}

\* contains: is there a node of that name
contains(g, name) == name \in DOMAIN g.ids

\* lastNode: the loop ranges over the indices of graph.Nodes()
lastNode(g) ==
  LET idx == 0 .. (Cardinality(g.nodes) - 1)
  IN IF idx = {} THEN 0 ELSE CHOOSE m \in idx : \A n \in idx : n <= m

\* addNode: update the probability of a known name, else insert a new node
addNode(g, name, probability) ==
  IF name \in DOMAIN g.ids
  THEN [g EXCEPT !.prob = [@ EXCEPT ![g.ids[name]] = probability]]
  ELSE LET id == lastNode(g) + 1
       IN [g EXCEPT !.nodes = @ \cup {id},
                    !.prob = [n \in DOMAIN @ \cup {id} |->
                                IF n = id THEN probability ELSE @[n]],
                    !.ids = [n \in DOMAIN @ \cup {name} |->
                                IF n = name THEN id ELSE @[n]],
                    !.nextNode = @ + 1]

\* addEdge: error when an endpoint is missing or a = b, else set the edge
addEdge(g, a, b, key) ==
  IF a \notin DOMAIN g.ids \/ b \notin DOMAIN g.ids \/ a = b
  THEN [ok |-> FALSE, g |-> g]
  ELSE LET e == <<g.ids[a], g.ids[b]>>
       IN [ok |-> TRUE,
           g |-> [g EXCEPT !.edges = [x \in DOMAIN @ \cup {e} |->
                                        IF x = e THEN key ELSE @[x]]]]

\* a phi that forgets the distance and returns the reputation as it is
phiNoDistance(g, name, reputation) ==
  IF name \notin DOMAIN g.ids THEN Zero ELSE reputation

\* phi = min(1/d, reputation), d the hop distance from the source (0 read as 1)
phi(g, name, reputation) ==
  IF name \notin DOMAIN g.ids THEN Zero
  ELSE LET distance == DijkstraFrom(g, g.ids[Source])[g.ids[name]]
       IN IF distance = -1 THEN RMin(Zero, reputation)
          ELSE RMin(RInv(IF distance = 0 THEN 1 ELSE distance), reputation)

\* ---------------------------------------------------------- the key table
\* The key table's own file is not among the sources; it is modelled from
\* the design document (section 4.1).
newKeyTable(owner, key) == [n \in {} |-> [KeyPub |-> ZeroKey, Confidence |-> Zero]]

\* add(rec): insert or replace
keyTable_add(tbl, owner, key, confidence) ==
  [n \in DOMAIN tbl \cup {owner} |->
     IF n = owner THEN [KeyPub |-> key, Confidence |-> confidence] ELSE tbl[n]]

\* get(name): the record and whether it is present
keyTable_get(tbl, name) ==
  IF name \in DOMAIN tbl
  THEN [rec |-> tbl[name], ok |-> TRUE]
  ELSE [rec |-> [KeyPub |-> ZeroKey, Confidence |-> Zero], ok |-> FALSE]

\* a keyTable.updateConfidence that files whatever key it is handed, nil or not
keyTable_updateConfidenceAnyKey(tbl, name, confidence, key) ==
  IF name \notin DOMAIN tbl THEN tbl
  ELSE [tbl EXCEPT ![name] = [KeyPub |-> key, Confidence |-> confidence]]

\* updateConfidence(name, confidence, key): no-op on an unknown name; a nil
\* key forces the confidence to 0 and leaves the stored key
keyTable_updateConfidence(tbl, name, confidence, key) ==
  IF name \notin DOMAIN tbl THEN tbl
  ELSE IF key = NilKey THEN [tbl EXCEPT ![name].Confidence = Zero]
  ELSE [tbl EXCEPT ![name] = [KeyPub |-> key, Confidence |-> confidence]]

keyTable_getPeerList(tbl) == DOMAIN tbl

\* ------------------------------------------------------ confidence engine
\* The map key selectBestPaths files a public key under:
\* key.N.String() + "-" + string(key.E), where string(int) is the UTF-8 of
\* the code point, U+FFFD for a surrogate or an out-of-range value.
RuneOf(e) ==
  IF e < 0 \/ e > 1114111 \/ (e >= 55296 /\ e <= 57343) THEN 65533 ELSE e
keyString(key) == <<key[1], RuneOf(key[2])>>

\* the key carried by the last edge of a path of two nodes or more
lastEdgeKey(g, p) == g.edges[<<p[Len(p) - 1], p[Len(p)]>>]

\* selectBestPaths: the possible results [paths, key]. With several paths
\* the winner is the first map entry, in Go's unspecified map iteration
\* order, that holds the maximal count: any key string of maximal count.
selectBestPaths(g, paths) ==
  IF paths = {} THEN {[paths |-> paths, key |-> NilKey]}
  ELSE IF Cardinality(paths) = 1
  THEN LET p == CHOOSE x \in paths : TRUE
       IN IF Len(p) < 2 THEN {[paths |-> paths, key |-> NilKey]}
          ELSE {[paths |-> paths, key |-> lastEdgeKey(g, p)]}
  ELSE LET long == {p \in paths : Len(p) >= 2}
           strs == {keyString(lastEdgeKey(g, p)) : p \in long}
           occurrences == [s \in strs |->
              Cardinality({p \in long : keyString(lastEdgeKey(g, p)) = s})]
           winners == {s \in strs : \A o \in strs : occurrences[o] <= occurrences[s]}
       IN IF strs = {} THEN {[paths |-> {}, key |-> ZeroKey]}
          ELSE UNION {LET bestPaths == {p \in long : keyString(lastEdgeKey(g, p)) = bkey}
                      IN {[paths |-> bestPaths, key |-> lastEdgeKey(g, p)] : p \in bestPaths}
                      : bkey \in winners}

\* probability of one path: the product of the trust probabilities of its
\* internal nodes (the source and the terminal excluded)
RECURSIVE pathProbability(_, _, _)
pathProbability(g, p, i) ==
  IF i >= Len(p) THEN One
  ELSE RMul(g.prob[p[i]], pathProbability(g, p, i + 1))

\* probabilityOfMinPaths = 1 - prod over the paths of (1 - probability(p));
\* not among the sources, modelled from the design document (section 4.3)
RECURSIVE failAll(_, _)
failAll(g, paths) ==
  IF paths = {} THEN One
  ELSE LET p == CHOOSE x \in paths : TRUE
       IN RMul(RCompl(pathProbability(g, p, 2)), failAll(g, paths \ {p}))
probabilityOfMinPaths(g, paths) == RCompl(failAll(g, paths))

\* updateConfidence: the possible key tables after the loop over ring.ids
RECURSIVE updateConfidenceLoop(_, _, _, _)
updateConfidenceLoop(g, allShortest, tbls, todo) ==
  IF todo = {} THEN tbls
  ELSE LET terminalName == CHOOSE x \in todo : TRUE
           minpaths == AllBetween(g, allShortest, g.ids[Source], g.ids[terminalName])
           best == selectBestPaths(g, minpaths)
       IN updateConfidenceLoop(g, allShortest,
            UNION {{keyTable_updateConfidence(t, terminalName,
                       probabilityOfMinPaths(g, b.paths), b.key) : b \in best}
                   : t \in tbls},
            todo \ {terminalName})
updateConfidence(g, tbl) ==
  updateConfidenceLoop(g, DijkstraAllPaths(g, g.ids[Source]), {tbl}, DOMAIN g.ids)

\* ------------------------------------------------------------- the facade
\* a GetKey that forgets the threshold
GetKeyNoThreshold(tbl, thr, name) ==
  LET r == keyTable_get(tbl, name)
  IN [key |-> r.rec.KeyPub, ok |-> r.ok]

\* GetKey: the key and true when the record exists with enough confidence
GetKey(tbl, thr, name) ==
  LET r == keyTable_get(tbl, name)
  IN IF ~r.ok THEN [key |-> r.rec.KeyPub, ok |-> r.ok]
     ELSE IF RLt(r.rec.Confidence, thr) THEN [key |-> ZeroKey, ok |-> FALSE]
     ELSE [key |-> r.rec.KeyPub, ok |-> r.ok]

\* a GetRecord that hides a record below the threshold, as GetKey does
GetRecordThresholded(tbl, name) ==
  LET r == keyTable_get(tbl, name)
  IN IF r.ok /\ RLt(r.rec.Confidence, Half)
     THEN [rec |-> [KeyPub |-> ZeroKey, Confidence |-> Zero], ok |-> FALSE]
     ELSE r

GetRecord(tbl, name) == keyTable_get(tbl, name)

GetPeerList(tbl) == keyTable_getPeerList(tbl)

\* an AddUnverified that pushes at the front
AddUnverifiedFront(q, msg) == <<msg>> \o q

\* AddUnverified: the message goes to the back of the pending list
AddUnverified(q, msg) == Append(q, msg)

\* an Add without the self-signature check
AddNoSelfCheck(g, tbl, owner, key, sigOrigin, reputationOwner) ==
  IF ~contains(g, sigOrigin) THEN {[g |-> g, table |-> tbl, fatal |-> FALSE]}
  ELSE LET g1 == addNode(g, owner, Zero)
           e == addEdge(g1, sigOrigin, owner, key)
       IN IF ~e.ok THEN {[g |-> g1, table |-> tbl, fatal |-> TRUE]}
          ELSE LET probability == phi(e.g, owner, reputationOwner)
                   g2 == addNode(e.g, owner, probability)
               IN {[g |-> g2, table |-> t, fatal |-> FALSE] : t \in updateConfidence(g2, tbl)}

\* Add: the possible rings [g, table, fatal] when the call returns (fatal:
\* log.Fatal ended the process after addNode)
Add(g, tbl, owner, key, sigOrigin, reputationOwner) ==
  IF ~contains(g, sigOrigin) THEN {[g |-> g, table |-> tbl, fatal |-> FALSE]}
  ELSE IF owner = sigOrigin THEN {[g |-> g, table |-> tbl, fatal |-> FALSE]}
  ELSE LET g1 == addNode(g, owner, Zero)
           e == addEdge(g1, sigOrigin, owner, key)
       IN IF ~e.ok THEN {[g |-> g1, table |-> tbl, fatal |-> TRUE]}
          ELSE LET probability == phi(e.g, owner, reputationOwner)
                   g2 == addNode(e.g, owner, probability)
               IN {[g |-> g2, table |-> t, fatal |-> FALSE] : t \in updateConfidence(g2, tbl)}

\* a constructor loop that leaves the bootstrap records out of the key table
RECURSIVE NewKeyRingLoopNoRecord(_, _, _)
NewKeyRingLoopNoRecord(r, trustedRecords, i) ==
  IF i > Len(trustedRecords) THEN r
  ELSE LET rec == trustedRecords[i]
           id == r.g.nextNode
           g1 == [r.g EXCEPT
                    !.nodes = @ \cup {id},
                    !.prob = [n \in DOMAIN @ \cup {id} |-> IF n = id THEN One ELSE @[n]],
                    !.ids = [n \in DOMAIN @ \cup {rec.Owner} |->
                               IF n = rec.Owner THEN id ELSE @[n]],
                    !.edges = [x \in DOMAIN @ \cup {<<0, id>>} |->
                               IF x = <<0, id>> THEN rec.KeyPub ELSE @[x]],
                    !.nextNode = @ + 1]
       IN NewKeyRingLoopNoRecord([g |-> g1, table |-> r.table], trustedRecords, i + 1)

\* NewKeyRing: the ring [g, table] built from the bootstrap records
RECURSIVE NewKeyRingLoop(_, _, _)
NewKeyRingLoop(r, trustedRecords, i) ==
  IF i > Len(trustedRecords) THEN r
  ELSE LET rec == trustedRecords[i]
           id == r.g.nextNode
           g1 == [r.g EXCEPT
                    !.nodes = @ \cup {id},
                    !.prob = [n \in DOMAIN @ \cup {id} |-> IF n = id THEN One ELSE @[n]],
                    !.ids = [n \in DOMAIN @ \cup {rec.Owner} |->
                               IF n = rec.Owner THEN id ELSE @[n]],
                    !.edges = [x \in DOMAIN @ \cup {<<0, id>>} |->
                               IF x = <<0, id>> THEN rec.KeyPub ELSE @[x]],
                    !.nextNode = @ + 1]
       IN NewKeyRingLoop([g |-> g1,
                          table |-> keyTable_add(r.table, rec.Owner, rec.KeyPub, rec.Confidence)],
                         trustedRecords, i + 1)

NewKeyRing(owner, key, trustedRecords) ==
  NewKeyRingLoop(
    [g |-> [ids |-> [n \in {owner} |-> 0], nodes |-> {0}, prob |-> [n \in {0} |-> One],
            edges |-> [x \in {} |-> ZeroKey], nextNode |-> 1],
     table |-> keyTable_add(newKeyTable(owner, key), owner, key, One)],
    trustedRecords, 1)

\* ------------------------------------------------------------- the updater
\* What ReputationTable.Reputation may answer
RepAnswers == {[rep |-> Zero, present |-> FALSE],
               [rep |-> Quarter, present |-> TRUE],
               [rep |-> One, present |-> TRUE]}

\* a reputation that falls back on 0 where the code falls back on 0.5
reputationOfDefaultZero(rt, answer) ==
  LET first == IF rt # "nil" THEN answer ELSE [rep |-> Zero, present |-> FALSE]
  IN IF ~first.present THEN Zero ELSE first.rep

\* the reputation updateTrust and updatePending work with
reputationOf(rt, answer) ==
  LET first == IF rt # "nil" THEN answer ELSE [rep |-> Half, present |-> FALSE]
  IN IF ~first.present THEN Half ELSE first.rep

\* updateTrust: every node gets phi(name, 2*rep)
RECURSIVE updateTrustLoop(_, _, _, _)
updateTrustLoop(g, rt, answers, todo) ==
  IF todo = {} THEN g
  ELSE LET name == CHOOSE x \in todo : TRUE
           rep == reputationOf(rt, answers[name])
           probability == phi(g, name, RDouble(rep))
       IN updateTrustLoop(addNode(g, name, probability), rt, answers, todo \ {name})
updateTrust(g, rt, answers) == updateTrustLoop(g, rt, answers, DOMAIN g.ids)

\* DeserializeKey and Verify are not among the sources (design document,
\* section 6): a message verifies under the public key of the key pair that
\* signed it.
DeserializeKey(bytes) == [key |-> bytes, err |-> bytes = BadBytes]
Verify(msg, kpub) == msg.Sig = kpub

\* updateMessage: the possible outcomes [g, table, fatal, ok]
updateMessage(g, tbl, thr, msg, confidenceOwner) ==
  LET d == DeserializeKey(msg.KeyBytes)
      k == GetKey(tbl, thr, msg.Origin)
  IN IF d.err THEN {[g |-> g, table |-> tbl, fatal |-> FALSE, ok |-> TRUE]}
     ELSE IF ~k.ok THEN {[g |-> g, table |-> tbl, fatal |-> FALSE, ok |-> FALSE]}
     ELSE IF Verify(msg, k.key)
     THEN {[g |-> a.g, table |-> a.table, fatal |-> a.fatal, ok |-> TRUE] :
             a \in Add(g, tbl, msg.Owner, d.key, msg.Origin, confidenceOwner)}
     ELSE {[g |-> g, table |-> tbl, fatal |-> FALSE, ok |-> FALSE]}

\* the first loop of updatePending: walk the queue from the front; toRemove
\* collects the positions updateMessage returned true for
RECURSIVE updatePendingWalk(_, _, _, _, _, _)
updatePendingWalk(rs, thr, q, rt, answers, i) ==
  IF i > Len(q) THEN rs
  ELSE LET msg == q[i]
           reputationOwner == reputationOf(rt, answers[msg.Owner])
       IN updatePendingWalk(
            UNION {{[g |-> u.g, table |-> u.table, fatal |-> u.fatal,
                     toRemove |-> IF u.ok THEN r.toRemove \cup {i} ELSE r.toRemove] :
                      u \in IF r.fatal
                            THEN {[g |-> r.g, table |-> r.table, fatal |-> TRUE, ok |-> FALSE]}
                            ELSE updateMessage(r.g, r.table, thr, msg, RDouble(reputationOwner))}
                   : r \in rs},
            thr, q, rt, answers, i + 1)

\* the second loop of updatePending: Remove(e) clears e's links, so e.Next()
\* is nil after the first removal and the loop ends
removeLoop(q, toRemove) == IF q = <<>> THEN q ELSE Tail(q)

updatePending(g, tbl, thr, q, rt, answers) ==
  {[g |-> r.g, table |-> r.table, fatal |-> r.fatal, toRemove |-> r.toRemove,
    pending |-> IF r.fatal THEN q ELSE removeLoop(q, r.toRemove)] :
     r \in updatePendingWalk({[g |-> g, table |-> tbl, fatal |-> FALSE, toRemove |-> {}]},
                             thr, q, rt, answers, 1)}

\* ------------------------------------------------------------------ inputs
BootB == [Owner |-> "B", KeyPub |-> K1, Confidence |-> NineTenths]
BootB2 == [Owner |-> "B", KeyPub |-> K2, Confidence |-> Quarter]
BootD == [Owner |-> "D", KeyPub |-> K2, Confidence |-> Quarter]
BootR == [Owner |-> "R", KeyPub |-> K2, Confidence |-> Quarter]
BootLists == {<<>>, <<BootB>>, <<BootB, BootD>>, <<BootB, BootB2>>, <<BootR, BootB>>}
Thresholds == {Half}
AddReps == {Half, One}
Msgs == {[Origin |-> "C", Owner |-> "D", KeyBytes |-> K1, Sig |-> K2],
         [Origin |-> "B", Owner |-> "C", KeyBytes |-> K2, Sig |-> K1],
         [Origin |-> "B", Owner |-> "C", KeyBytes |-> K1, Sig |-> K2],
         [Origin |-> "B", Owner |-> "D", KeyBytes |-> BadBytes, Sig |-> K1]}

NoOp == [op |-> "NewKeyRing", owner |-> "-", key |-> NilKey, origin |-> "-",
         rep |-> Zero, sign |-> NilKey, fresh |-> FALSE, fatal |-> FALSE]

SetRing(g, tbl) ==
  /\ ids' = g.ids
  /\ nodes' = g.nodes
  /\ prob' = g.prob
  /\ edges' = g.edges
  /\ nextNode' = g.nextNode
  /\ table' = tbl

\* the caller threads, and a thread that is in no call
Callers == {"c1", "c2"}
\* the caller threads and the worker goroutine
Threads == Callers \cup {"worker"}
IdleCall == [pc |-> "idle", op |-> "-", owner |-> "-", key |-> NilKey, origin |-> "-",
             rep |-> Zero, sign |-> NilKey, probability |-> Zero]
\* the worker outside updateTrust and updatePending
IdleWk == [todo |-> {}, visited |-> {}, name |-> "-", p |-> Zero, i |-> 0,
           toRemove |-> {}]

\* ----------------------------------------------------------- specification
Init ==
  /\ boot \in BootLists
  /\ threshold \in Thresholds
  /\ LET r == NewKeyRing(Source, SourceKey, boot)
     IN /\ ids = r.g.ids
        /\ nodes = r.g.nodes
        /\ prob = r.g.prob
        /\ edges = r.g.edges
        /\ nextNode = r.g.nextNode
        /\ table = r.table
  /\ pending = <<>>
  /\ stopped = FALSE
  /\ worker = "none"
  /\ reptable = "nil"
  /\ added = {Source} \cup {boot[i].Owner : i \in 1 .. Len(boot)}
  /\ nCalls = 0
  /\ last = NoOp
  /\ s6 = [stage |-> 0, x |-> "-", y |-> "-", k |-> NilKey]
  /\ mutex = "free"
  /\ pendingMutex = "free"
  /\ calls = [c \in Callers |-> IdleCall]
  /\ wk = IdleWk
  /\ tableMutex = "free"
  /\ ops = [t \in Threads |-> <<>>]

\* a caller calls Add(rec, sigOrigin, reputationOwner)
AddCall(owner, key, sigOrigin, rep) ==
  /\ ~last.fatal
  /\ nCalls < MaxCalls
  /\ \E a \in Add(Graph, table, owner, key, sigOrigin, rep) :
       /\ SetRing(a.g, a.table)
       /\ last' = [NoOp EXCEPT !.op = "Add", !.owner = owner, !.key = key,
                               !.origin = sigOrigin, !.rep = rep,
                               !.fresh = ~contains(Graph, owner),
                               !.fatal = a.fatal]
  /\ nCalls' = nCalls + 1
  /\ s6' = IF s6.stage = 1 /\ owner = s6.x /\ key = s6.k /\ sigOrigin = Source /\ rep = One
           THEN [s6 EXCEPT !.stage = 2] ELSE s6
  /\ UNCHANGED <<pending, threshold, stopped, worker, reptable, boot, added>>
  /\ UNCHANGED concVars

\* a caller calls AddUnverified(msg)
AddUnverifiedCall(msg) ==
  /\ ~last.fatal
  /\ nCalls < MaxCalls
  /\ nCalls' = nCalls + 1
  /\ pending' = AddUnverified(pending, msg)
  /\ last' = [NoOp EXCEPT !.op = "AddUnverified", !.owner = msg.Owner,
                          !.key = msg.KeyBytes, !.origin = msg.Origin, !.sign = msg.Sig]
  /\ s6' = IF /\ s6.stage = 0
              /\ pending = <<>>
              /\ ~contains(Graph, msg.Origin)
              /\ msg.Origin # msg.Owner
              /\ ~DeserializeKey(msg.KeyBytes).err
              /\ ~GetKey(table, threshold, msg.Owner).ok
           THEN [stage |-> 1, x |-> msg.Origin, y |-> msg.Owner, k |-> msg.Sig]
           ELSE s6
  /\ UNCHANGED <<ids, nodes, prob, edges, nextNode, table, threshold, stopped,
                 worker, reptable, boot, added>>
  /\ UNCHANGED concVars

\* Start(rate) or StartWithReputation(rate, reptable) launches the worker
StartCall(rt) ==
  /\ ~last.fatal
  /\ worker = "none"
  /\ worker' = "wait"
  /\ reptable' = rt
  /\ last' = [NoOp EXCEPT !.op = "Start"]
  /\ UNCHANGED <<ids, nodes, prob, edges, nextNode, table, pending, threshold,
                 stopped, boot, added, nCalls, s6>>
  /\ UNCHANGED concVars

\* Stop()
StopCall ==
  /\ ~last.fatal
  /\ nCalls < MaxCalls
  /\ nCalls' = nCalls + 1
  /\ stopped' = TRUE
  /\ last' = [NoOp EXCEPT !.op = "Stop"]
  /\ UNCHANGED <<ids, nodes, prob, edges, nextNode, table, pending, threshold,
                 worker, reptable, boot, added, s6>>
  /\ UNCHANGED concVars

\* a ticker step that does not look at the stopped flag
TickIgnoresStop ==
  /\ ~last.fatal
  /\ worker = "wait"
  /\ worker' = "trust"
  /\ last' = [NoOp EXCEPT !.op = "Tick"]
  /\ UNCHANGED <<ids, nodes, prob, edges, nextNode, table, pending, threshold,
                 stopped, reptable, boot, added, nCalls, s6>>
  /\ UNCHANGED concVars

\* the worker's ticker fires: leave the loop when stopped, else begin a tick
Tick ==
  /\ ~last.fatal
  /\ worker = "wait"
  /\ worker' = IF stopped THEN "exited" ELSE "trust"
  /\ last' = [NoOp EXCEPT !.op = "Tick"]
  /\ UNCHANGED <<ids, nodes, prob, edges, nextNode, table, pending, threshold,
                 stopped, reptable, boot, added, nCalls, s6>>
  /\ UNCHANGED concVars

\* the worker runs updateTrust(reptable)
UpdateTrust ==
  /\ ~last.fatal
  /\ worker = "trust"
  /\ \E answers \in [DOMAIN ids -> IF reptable = "nil" THEN {[rep |-> Zero, present |-> FALSE]}
                                    ELSE RepAnswers] :
       SetRing(updateTrust(Graph, reptable, answers), table)
  /\ worker' = "pending"
  /\ last' = [NoOp EXCEPT !.op = "updateTrust"]
  /\ UNCHANGED <<pending, threshold, stopped, reptable, boot, added, nCalls, s6>>
  /\ UNCHANGED concVars

\* the worker runs updatePending(reptable)
UpdatePending ==
  /\ ~last.fatal
  /\ worker = "pending"
  /\ \E answers \in [{pending[i].Owner : i \in 1 .. Len(pending)} ->
                        IF reptable = "nil" THEN {[rep |-> Zero, present |-> FALSE]}
                        ELSE RepAnswers] :
       \E u \in updatePending(Graph, table, threshold, pending, reptable, answers) :
         /\ SetRing(u.g, u.table)
         /\ pending' = u.pending
         /\ last' = [NoOp EXCEPT !.op = "updatePending", !.fatal = u.fatal]
  /\ worker' = "conf"
  /\ s6' = IF s6.stage = 2 THEN [s6 EXCEPT !.stage = 3]
           ELSE IF s6.stage = 1 THEN [s6 EXCEPT !.stage = 5]
           ELSE s6
  /\ UNCHANGED <<threshold, stopped, reptable, boot, added, nCalls>>
  /\ UNCHANGED concVars

\* the worker runs updateConfidence()
UpdateConfidence ==
  /\ ~last.fatal
  /\ worker = "conf"
  /\ \E t \in updateConfidence(Graph, table) : table' = t
  /\ worker' = "wait"
  /\ last' = [NoOp EXCEPT !.op = "updateConfidence"]
  /\ s6' = IF s6.stage = 3 THEN [s6 EXCEPT !.stage = 4] ELSE s6
  /\ UNCHANGED <<ids, nodes, prob, edges, nextNode, pending, threshold, stopped,
                 reptable, boot, added, nCalls>>
  /\ UNCHANGED concVars

Next ==
  \/ \E owner \in Names, key \in Keys, sigOrigin \in Names, rep \in AddReps :
       AddCall(owner, key, sigOrigin, rep)
  \/ \E msg \in Msgs : AddUnverifiedCall(msg)
  \/ \E rt \in {"nil", "table"} : StartCall(rt)
  \/ StopCall
  \/ Tick
  \/ UpdateTrust
  \/ UpdatePending
  \/ UpdateConfidence

Spec == Init /\ [][Next]_vars

\* The life cycle of the updater on a few rings: the ticker keeps firing and
\* the worker goroutine keeps being scheduled.
LiveBootLists == {<<BootB>>, <<BootB, BootD>>}
LiveAdds ==
  {[owner |-> "C", key |-> K1, origin |-> "B", rep |-> Half],
   [owner |-> "B", key |-> K2, origin |-> "R", rep |-> One]}
LiveMsgs == {[Origin |-> "B", Owner |-> "C", KeyBytes |-> K2, Sig |-> K1]}

InitLive ==
  /\ Init
  /\ boot \in LiveBootLists

NextLive ==
  \/ \E a \in LiveAdds : AddCall(a.owner, a.key, a.origin, a.rep)
  \/ \E msg \in LiveMsgs : AddUnverifiedCall(msg)
  \/ \E rt \in {"nil", "table"} : StartCall(rt)
  \/ StopCall
  \/ Tick
  \/ UpdateTrust
  \/ UpdatePending
  \/ UpdateConfidence

\* the worker, inside a tick, finishes the phase it is in and moves on
WorkerStep ==
  /\ worker \in {"trust", "pending", "conf"}
  /\ worker' \in {"pending", "conf", "wait"}
  /\ worker' # worker

SpecLive ==
  /\ InitLive
  /\ [][NextLive]_vars
  /\ WF_vars(Tick)
  /\ WF_worker(WorkerStep)

\* ------------------------------------------------ the key table on its own
\* TestAddRetrieve drives the key table directly: an empty table, then add
\* and get.
KTConfidences == {Quarter, One}

InitKT ==
  /\ boot = <<>>
  /\ threshold = Half
  /\ LET r == NewKeyRing(Source, SourceKey, boot)
     IN /\ ids = r.g.ids
        /\ nodes = r.g.nodes
        /\ prob = r.g.prob
        /\ edges = r.g.edges
        /\ nextNode = r.g.nextNode
  /\ table = newKeyTable(Source, SourceKey)
  /\ added = {}
  /\ pending = <<>>
  /\ stopped = FALSE
  /\ worker = "none"
  /\ reptable = "nil"
  /\ nCalls = 0
  /\ last = [NoOp EXCEPT !.op = "newKeyTable"]
  /\ s6 = [stage |-> 0, x |-> "-", y |-> "-", k |-> NilKey]
  /\ mutex = "free"
  /\ pendingMutex = "free"
  /\ calls = [c \in Callers |-> IdleCall]
  /\ wk = IdleWk
  /\ tableMutex = "free"
  /\ ops = [t \in Threads |-> <<>>]

KTAdd(owner, key, confidence) ==
  /\ table' = keyTable_add(table, owner, key, confidence)
  /\ added' = added \cup {owner}
  /\ last' = [NoOp EXCEPT !.op = "keyTable.add", !.owner = owner, !.key = key,
                          !.rep = confidence]
  /\ UNCHANGED <<ids, nodes, prob, edges, nextNode, pending, threshold, stopped,
                 worker, reptable, boot, nCalls, s6>>
  /\ UNCHANGED concVars

NextKT == \E owner \in Names, key \in Keys, confidence \in KTConfidences :
            KTAdd(owner, key, confidence)

SpecKT == InitKT /\ [][NextKT]_vars

\* ------------------------------------------- rings grown by a fixed set of Adds
\* Rings with several shortest paths to one target: a bootstrap list, then
\* any sequence of the attestations below.
PathsBootLists == {<<BootB, BootD>>, <<BootR, BootB>>}
PathsAdds ==
  {[owner |-> "C", key |-> K1, origin |-> "R", rep |-> One],
   [owner |-> "D", key |-> K1, origin |-> "R", rep |-> Half],
   [owner |-> "B", key |-> K1, origin |-> "C", rep |-> One],
   [owner |-> "B", key |-> K2, origin |-> "D", rep |-> One],
   [owner |-> "C", key |-> K3, origin |-> "B", rep |-> Half],
   [owner |-> "C", key |-> K4, origin |-> "D", rep |-> Half]}

InitPaths ==
  /\ Init
  /\ boot \in PathsBootLists

\* a caller calls Add with one of the attestations
AddPaths(a) ==
  /\ ~last.fatal
  /\ \E r \in Add(Graph, table, a.owner, a.key, a.origin, a.rep) :
       /\ SetRing(r.g, r.table)
       /\ last' = [NoOp EXCEPT !.op = "Add", !.owner = a.owner, !.key = a.key,
                               !.origin = a.origin, !.rep = a.rep,
                               !.fresh = ~contains(Graph, a.owner),
                               !.fatal = r.fatal]
  /\ UNCHANGED <<pending, threshold, stopped, worker, reptable, boot, added,
                 nCalls, s6>>
  /\ UNCHANGED concVars

NextPaths == \E a \in PathsAdds : AddPaths(a)

SpecPaths == InitPaths /\ [][NextPaths]_vars

\* ------------------------------------------------- the threads interleaved
\* Callers and the worker goroutine run at the same time. A step is what one
\* thread does between two lock operations: a critical section of ring.mutex
\* whose inside no other thread can see is one step (Lock, body, Unlock);
\* AddUnverified and updateConfidence keep their Lock as a step of its own, so
\* that a state shows who holds ring.mutex while they run.
ConcBootLists == {<<BootB>>, <<BootR, BootB>>}
ConcAdds == {[owner |-> "C", key |-> K1, origin |-> "R", rep |-> One],
             [owner |-> "B", key |-> K2, origin |-> "C", rep |-> Half],
             [owner |-> "B", key |-> K2, origin |-> "R", rep |-> One],
             [owner |-> "C", key |-> K1, origin |-> "B", rep |-> Half]}
ConcMsgs == {[Origin |-> "C", Owner |-> "D", KeyBytes |-> K1, Sig |-> K2],
             [Origin |-> "B", Owner |-> "D", KeyBytes |-> BadBytes, Sig |-> K1]}

InitConc == Init /\ boot \in ConcBootLists

\* a caller enters Add: contains(sigOrigin) under the mutex, then the
\* self-signature test; both rejections return before anything is written
ConcAddCall(c, a) ==
  /\ ~last.fatal
  /\ calls[c].pc = "idle"
  /\ c = "c2" => calls["c1"].pc # "idle"
  /\ mutex = "free"
  /\ calls' = [calls EXCEPT ![c] =
       [IdleCall EXCEPT !.op = "Add", !.owner = a.owner, !.key = a.key,
                        !.origin = a.origin, !.rep = a.rep,
                        !.pc = IF ~contains(Graph, a.origin) \/ a.owner = a.origin
                               THEN "done" ELSE "addNode0"]]
  /\ UNCHANGED <<ids, nodes, prob, edges, nextNode, table, pending, threshold, stopped,
                 worker, reptable, boot, added, nCalls, last, s6, mutex, pendingMutex, wk>>
  /\ UNCHANGED <<tableMutex, ops>>

\* an addNode(rec.Owner, 0.0) that also files a key-table record of confidence
\* 1 for the owner (the insertion Add has commented out, with a confidence)
ConcAddNodeZeroWithRecord(c) ==
  /\ ~last.fatal
  /\ calls[c].op = "Add" /\ calls[c].pc = "addNode0"
  /\ mutex = "free"
  /\ SetRing(addNode(Graph, calls[c].owner, Zero),
             keyTable_add(table, calls[c].owner, calls[c].key, One))
  /\ calls' = [calls EXCEPT ![c].pc = "addEdge"]
  /\ last' = last
  /\ UNCHANGED <<pending, threshold, stopped, worker, reptable, boot, added, nCalls,
                 s6, mutex, pendingMutex, wk>>
  /\ UNCHANGED <<tableMutex, ops>>

\* Add: ring.addNode(rec.Owner, 0.0). Inserting a name writes the map
\* ring.ids; updateTrust ranges over that map without the mutex, and a write
\* that meets the iteration makes the Go runtime throw.
ConcAddNodeZero(c) ==
  /\ ~last.fatal
  /\ calls[c].op = "Add" /\ calls[c].pc = "addNode0"
  /\ mutex = "free"
  /\ SetRing(addNode(Graph, calls[c].owner, Zero), table)
  /\ calls' = [calls EXCEPT ![c].pc = "addEdge"]
  /\ \E thrown \in IF calls[c].owner \notin DOMAIN ids /\ worker = "trust"
                   THEN {FALSE, TRUE} ELSE {FALSE} :
       last' = [last EXCEPT !.fatal = thrown]
  /\ UNCHANGED <<pending, threshold, stopped, worker, reptable, boot, added, nCalls,
                 s6, mutex, pendingMutex, wk>>
  /\ UNCHANGED <<tableMutex, ops>>

\* Add: ring.addEdge(sigOrigin, rec.Owner, rec.KeyPub), log.Fatal on an error
ConcAddEdge(c) ==
  /\ ~last.fatal
  /\ calls[c].op = "Add" /\ calls[c].pc = "addEdge"
  /\ mutex = "free"
  /\ LET e == addEdge(Graph, calls[c].origin, calls[c].owner, calls[c].key)
     IN /\ SetRing(e.g, table)
        /\ last' = [last EXCEPT !.fatal = ~e.ok]
  /\ calls' = [calls EXCEPT ![c].pc = "phi"]
  /\ UNCHANGED <<pending, threshold, stopped, worker, reptable, boot, added, nCalls,
                 s6, mutex, pendingMutex, wk>>
  /\ UNCHANGED <<tableMutex, ops>>

\* Add: probability := ring.phi(rec.Owner, reputationOwner)
ConcAddPhi(c) ==
  /\ ~last.fatal
  /\ calls[c].op = "Add" /\ calls[c].pc = "phi"
  /\ mutex = "free"
  /\ calls' = [calls EXCEPT ![c].pc = "addNode",
                            ![c].probability = phi(Graph, calls[c].owner, calls[c].rep)]
  /\ UNCHANGED <<ids, nodes, prob, edges, nextNode, table, pending, threshold, stopped,
                 worker, reptable, boot, added, nCalls, last, s6, mutex, pendingMutex, wk>>
  /\ UNCHANGED <<tableMutex, ops>>

\* Add: ring.addNode(rec.Owner, probability)
ConcAddNode(c) ==
  /\ ~last.fatal
  /\ calls[c].op = "Add" /\ calls[c].pc = "addNode"
  /\ mutex = "free"
  /\ SetRing(addNode(Graph, calls[c].owner, calls[c].probability), table)
  /\ calls' = [calls EXCEPT ![c].pc = "updateConfidence"]
  /\ UNCHANGED <<pending, threshold, stopped, worker, reptable, boot, added, nCalls,
                 last, s6, mutex, pendingMutex, wk>>
  /\ UNCHANGED <<tableMutex, ops>>

\* Add: ring.updateConfidence(), its ring.mutex.Lock()
ConcAddConfidenceLock(c) ==
  /\ ~last.fatal
  /\ calls[c].op = "Add" /\ calls[c].pc = "updateConfidence"
  /\ mutex = "free"
  /\ mutex' = c
  /\ calls' = [calls EXCEPT ![c].pc = "confidence"]
  /\ UNCHANGED <<ids, nodes, prob, edges, nextNode, table, pending, threshold, stopped,
                 worker, reptable, boot, added, nCalls, last, s6, pendingMutex, wk>>
  /\ UNCHANGED <<tableMutex, ops>>

\* Add: ring.updateConfidence(), the loop and the deferred Unlock
ConcAddConfidence(c) ==
  /\ ~last.fatal
  /\ calls[c].op = "Add" /\ calls[c].pc = "confidence"
  /\ mutex = c
  /\ \E t \in updateConfidence(Graph, table) : table' = t
  /\ mutex' = "free"
  /\ calls' = [calls EXCEPT ![c].pc = "done"]
  /\ UNCHANGED <<ids, nodes, prob, edges, nextNode, pending, threshold, stopped,
                 worker, reptable, boot, added, nCalls, last, s6, pendingMutex, wk>>
  /\ UNCHANGED <<tableMutex, ops>>

\* a caller enters AddUnverified(msg) and arrives at ring.mutex.Lock()
ConcAddUnverifiedCall(c, msg) ==
  /\ ~last.fatal
  /\ calls[c].pc = "idle"
  /\ c = "c2" => calls["c1"].pc # "idle"
  /\ calls' = [calls EXCEPT ![c] =
       [IdleCall EXCEPT !.op = "AddUnverified", !.owner = msg.Owner, !.key = msg.KeyBytes,
                        !.origin = msg.Origin, !.sign = msg.Sig, !.pc = "lock"]]
  /\ UNCHANGED <<ids, nodes, prob, edges, nextNode, table, pending, threshold, stopped,
                 worker, reptable, boot, added, nCalls, last, s6, mutex, pendingMutex, wk>>
  /\ UNCHANGED <<tableMutex, ops>>

\* AddUnverified: ring.mutex.Lock() returns
ConcAddUnverifiedLock(c) ==
  /\ ~last.fatal
  /\ calls[c].op = "AddUnverified" /\ calls[c].pc = "lock"
  /\ mutex = "free"
  /\ mutex' = c
  /\ calls' = [calls EXCEPT ![c].pc = "push"]
  /\ UNCHANGED <<ids, nodes, prob, edges, nextNode, table, pending, threshold, stopped,
                 worker, reptable, boot, added, nCalls, last, s6, pendingMutex, wk>>
  /\ UNCHANGED <<tableMutex, ops>>

\* AddUnverified: ring.pending.PushBack(msg) and the deferred Unlock. A
\* PushBack that runs while updatePending is inside the list is a data race of
\* container/list: the element is linked in, or the links it wrote are
\* overwritten by a Remove and the element is lost.
ConcAddUnverifiedPush(c) ==
  /\ ~last.fatal
  /\ calls[c].op = "AddUnverified" /\ calls[c].pc = "push"
  /\ mutex = c
  /\ LET msg == [Origin |-> calls[c].origin, Owner |-> calls[c].owner,
                 KeyBytes |-> calls[c].key, Sig |-> calls[c].sign]
     IN pending' \in {AddUnverified(pending, msg)}
                       \cup IF pendingMutex = "worker" THEN {pending} ELSE {}
  /\ mutex' = "free"
  /\ calls' = [calls EXCEPT ![c].pc = "done"]
  /\ UNCHANGED <<ids, nodes, prob, edges, nextNode, table, threshold, stopped,
                 worker, reptable, boot, added, nCalls, last, s6, pendingMutex, wk>>
  /\ UNCHANGED <<tableMutex, ops>>

\* the ticker fires: leave the loop when stopped, else enter updateTrust, whose
\* range statement starts on the names ring.ids holds now
ConcTick ==
  /\ ~last.fatal
  /\ worker = "wait"
  /\ worker' = IF stopped THEN "exited" ELSE "trust"
  /\ wk' = IF stopped THEN IdleWk ELSE [IdleWk EXCEPT !.todo = DOMAIN ids]
  /\ UNCHANGED <<ids, nodes, prob, edges, nextNode, table, pending, threshold, stopped,
                 reptable, boot, added, nCalls, last, s6, mutex, pendingMutex, calls>>
  /\ UNCHANGED <<tableMutex, ops>>

\* updateTrust, one iteration, first half: the range statement yields a name
\* (in no fixed order; a name inserted since the loop began may or may not
\* come up), Reputation(name) answers, and phi(name, 2*rep) is computed
ConcTrustPhi ==
  /\ ~last.fatal
  /\ worker = "trust" /\ wk.name = "-"
  /\ mutex = "free"
  /\ \E name \in DOMAIN ids \ wk.visited :
       \E answer \in RepAnswers :
         wk' = [wk EXCEPT !.name = name,
                          !.p = phi(Graph, name, RDouble(reputationOf(reptable, answer)))]
  /\ UNCHANGED <<ids, nodes, prob, edges, nextNode, table, pending, threshold, stopped,
                 worker, reptable, boot, added, nCalls, last, s6, mutex, pendingMutex, calls>>
  /\ UNCHANGED <<tableMutex, ops>>

\* updateTrust, one iteration, second half: ring.addNode(name, probability)
ConcTrustAddNode ==
  /\ ~last.fatal
  /\ worker = "trust" /\ wk.name # "-"
  /\ mutex = "free"
  /\ SetRing(addNode(Graph, wk.name, wk.p), table)
  /\ wk' = [wk EXCEPT !.name = "-", !.p = Zero, !.visited = @ \cup {wk.name},
                      !.todo = @ \ {wk.name}]
  /\ UNCHANGED <<pending, threshold, stopped, worker, reptable, boot, added, nCalls,
                 last, s6, mutex, pendingMutex, calls>>
  /\ UNCHANGED <<tableMutex, ops>>

\* updateTrust returns once the range statement is exhausted
ConcTrustDone ==
  /\ ~last.fatal
  /\ worker = "trust" /\ wk.name = "-" /\ wk.todo = {}
  /\ worker' = "pending"
  /\ wk' = IdleWk
  /\ UNCHANGED <<ids, nodes, prob, edges, nextNode, table, pending, threshold, stopped,
                 reptable, boot, added, nCalls, last, s6, mutex, pendingMutex, calls>>
  /\ UNCHANGED <<tableMutex, ops>>

\* updatePending: ring.pendingMutex.Lock()
ConcPendingLock ==
  /\ ~last.fatal
  /\ worker = "pending" /\ pendingMutex = "free"
  /\ pendingMutex' = "worker"
  /\ wk' = [IdleWk EXCEPT !.i = 1]
  /\ UNCHANGED <<ids, nodes, prob, edges, nextNode, table, pending, threshold, stopped,
                 worker, reptable, boot, added, nCalls, last, s6, mutex, calls>>
  /\ UNCHANGED <<tableMutex, ops>>

\* updatePending, one iteration of the walk: updateMessage on the element at
\* the cursor. A message that verifies makes the worker call Add, taken here
\* as one step.
ConcPendingMessage ==
  /\ ~last.fatal
  /\ worker = "pending" /\ pendingMutex = "worker"
  /\ wk.i <= Len(pending)
  /\ mutex = "free"
  /\ \E answer \in RepAnswers :
       \E u \in updateMessage(Graph, table, threshold, pending[wk.i],
                              RDouble(reputationOf(reptable, answer))) :
         /\ SetRing(u.g, u.table)
         /\ last' = [last EXCEPT !.fatal = u.fatal]
         /\ wk' = [wk EXCEPT !.i = @ + 1,
                             !.toRemove = IF u.ok THEN @ \cup {wk.i} ELSE @]
  /\ UNCHANGED <<pending, threshold, stopped, worker, reptable, boot, added, nCalls,
                 s6, mutex, pendingMutex, calls>>
  /\ UNCHANGED <<tableMutex, ops>>

\* updatePending: the walk is over, the removal loop runs, the deferred
\* Unlock releases pendingMutex
ConcPendingRemove ==
  /\ ~last.fatal
  /\ worker = "pending" /\ pendingMutex = "worker"
  /\ wk.i > Len(pending)
  /\ pending' = removeLoop(pending, wk.toRemove)
  /\ pendingMutex' = "free"
  /\ worker' = "conf"
  /\ wk' = IdleWk
  /\ UNCHANGED <<ids, nodes, prob, edges, nextNode, table, threshold, stopped,
                 reptable, boot, added, nCalls, last, s6, mutex, calls>>
  /\ UNCHANGED <<tableMutex, ops>>

\* the worker's updateConfidence: ring.mutex.Lock()
ConcConfidenceLock ==
  /\ ~last.fatal
  /\ worker = "conf" /\ mutex = "free"
  /\ mutex' = "worker"
  /\ UNCHANGED <<ids, nodes, prob, edges, nextNode, table, pending, threshold, stopped,
                 worker, reptable, boot, added, nCalls, last, s6, pendingMutex, calls, wk>>
  /\ UNCHANGED <<tableMutex, ops>>

\* the worker's updateConfidence: the loop and the deferred Unlock
ConcConfidence ==
  /\ ~last.fatal
  /\ worker = "conf" /\ mutex = "worker"
  /\ \E t \in updateConfidence(Graph, table) : table' = t
  /\ mutex' = "free"
  /\ worker' = "wait"
  /\ UNCHANGED <<ids, nodes, prob, edges, nextNode, pending, threshold, stopped,
                 reptable, boot, added, nCalls, last, s6, pendingMutex, calls, wk>>
  /\ UNCHANGED <<tableMutex, ops>>

\* StartWithReputation(rt): the worker goroutine is launched
ConcStart ==
  /\ ~last.fatal
  /\ worker = "none"
  /\ worker' = "wait"
  /\ reptable' = "table"
  /\ UNCHANGED <<ids, nodes, prob, edges, nextNode, table, pending, threshold, stopped,
                 boot, added, nCalls, last, s6, mutex, pendingMutex, calls, wk>>
  /\ UNCHANGED <<tableMutex, ops>>

NextConc ==
  \/ \E c \in Callers, a \in ConcAdds : ConcAddCall(c, a)
  \/ \E c \in Callers : ConcAddNodeZero(c)
  \/ \E c \in Callers : ConcAddEdge(c)
  \/ \E c \in Callers : ConcAddPhi(c)
  \/ \E c \in Callers : ConcAddNode(c)
  \/ \E c \in Callers : ConcAddConfidenceLock(c)
  \/ \E c \in Callers : ConcAddConfidence(c)
  \/ \E c \in Callers, msg \in ConcMsgs : ConcAddUnverifiedCall(c, msg)
  \/ \E c \in Callers : ConcAddUnverifiedLock(c)
  \/ \E c \in Callers : ConcAddUnverifiedPush(c)
  \/ ConcStart
  \/ ConcTick
  \/ ConcTrustPhi
  \/ ConcTrustAddNode
  \/ ConcTrustDone
  \/ ConcPendingLock
  \/ ConcPendingMessage
  \/ ConcPendingRemove
  \/ ConcConfidenceLock
  \/ ConcConfidence

SpecConc == InitConc /\ [][NextConc]_vars

\* ------------------------------------------------------ the locks on their own
\* What each function does to the three locks, in the order of its code; the
\* data are left out, so every branch of the code can be taken and every loop
\* runs between no and MaxLoop times. A thread holds the list of what it still
\* has to do: Lock and Unlock operations, and calls it has yet to enter.
MaxLoop == 2

LockOp(m) == [op |-> "Lock", of |-> m]
UnlockOp(m) == [op |-> "Unlock", of |-> m]
CallOp(f) == [op |-> "Call", of |-> f]
\* m.Lock(); defer m.Unlock() around a body that takes no other lock
CriticalOps(m) == <<LockOp(m), UnlockOp(m)>>

RECURSIVE Repeat(_, _)
Repeat(s, k) == IF k = 0 THEN <<>> ELSE s \o Repeat(s, k - 1)

\* an addNode that calls phi before it gives the ring mutex back
addNodeOpsReentrant == <<LockOp("ring"), LockOp("ring"), UnlockOp("ring"), UnlockOp("ring")>>

containsOps == CriticalOps("ring")
addNodeOps == CriticalOps("ring")
addEdgeOps == CriticalOps("ring")
phiOps == CriticalOps("ring")
\* every key-table operation is serialized by the table's own mutex
keyTableOps == CriticalOps("table")

\* the bodies a call can turn out to have
Bodies(f) ==
  CASE f = "Add" ->
         {containsOps,
          containsOps \o addNodeOps \o addEdgeOps \o phiOps \o addNodeOps
            \o <<CallOp("updateConfidence")>>}
    [] f = "AddUnverified" -> {CriticalOps("ring")}
    [] f = "GetKey" -> {keyTableOps}
    [] f = "GetRecord" -> {keyTableOps}
    [] f = "updateTrust" -> {Repeat(phiOps \o addNodeOps, n) : n \in 1 .. MaxLoop}
    [] f = "updatePending" ->
         {<<LockOp("pending")>> \o Repeat(<<CallOp("updateMessage")>>, k)
            \o <<UnlockOp("pending")>> : k \in 0 .. MaxLoop}
    [] f = "updateMessage" ->
         {<<>>, <<CallOp("GetKey")>>, <<CallOp("GetKey"), CallOp("Add")>>}
    [] f = "updateConfidence" ->
         {<<LockOp("ring")>> \o Repeat(keyTableOps, n) \o <<UnlockOp("ring")>> :
            n \in 1 .. MaxLoop}
    [] f = "tick" ->
         {<<CallOp("updateTrust"), CallOp("updatePending"), CallOp("updateConfidence")>>}

Holder(m) ==
  IF m = "ring" THEN mutex ELSE IF m = "pending" THEN pendingMutex ELSE tableMutex

InitLock == Init /\ boot = <<BootB>>

\* a caller thread calls a function of the facade
LockCall(c, f) ==
  /\ ops[c] = <<>>
  /\ ops' = [ops EXCEPT ![c] = <<CallOp(f)>>]
  /\ UNCHANGED <<ids, nodes, prob, edges, nextNode, table, pending, threshold, stopped,
                 worker, reptable, boot, added, nCalls, last, s6, mutex, pendingMutex,
                 calls, wk, tableMutex>>

\* the ticker fires and the worker starts a tick
LockTick ==
  /\ worker = "wait"
  /\ ops["worker"] = <<>>
  /\ ops' = [ops EXCEPT !["worker"] = <<CallOp("tick")>>]
  /\ UNCHANGED <<ids, nodes, prob, edges, nextNode, table, pending, threshold, stopped,
                 worker, reptable, boot, added, nCalls, last, s6, mutex, pendingMutex,
                 calls, wk, tableMutex>>

\* a thread enters the call it has reached
LockEnter(t) ==
  /\ ops[t] # <<>> /\ Head(ops[t]).op = "Call"
  /\ \E body \in Bodies(Head(ops[t]).of) :
       ops' = [ops EXCEPT ![t] = body \o Tail(ops[t])]
  /\ UNCHANGED <<ids, nodes, prob, edges, nextNode, table, pending, threshold, stopped,
                 worker, reptable, boot, added, nCalls, last, s6, mutex, pendingMutex,
                 calls, wk, tableMutex>>

\* Lock() returns: the mutex was free and is now the thread's
LockAcquire(t) ==
  /\ ops[t] # <<>> /\ Head(ops[t]).op = "Lock"
  /\ Holder(Head(ops[t]).of) = "free"
  /\ mutex' = IF Head(ops[t]).of = "ring" THEN t ELSE mutex
  /\ pendingMutex' = IF Head(ops[t]).of = "pending" THEN t ELSE pendingMutex
  /\ tableMutex' = IF Head(ops[t]).of = "table" THEN t ELSE tableMutex
  /\ ops' = [ops EXCEPT ![t] = Tail(ops[t])]
  /\ UNCHANGED <<ids, nodes, prob, edges, nextNode, table, pending, threshold, stopped,
                 worker, reptable, boot, added, nCalls, last, s6, calls, wk>>

\* Unlock()
LockRelease(t) ==
  /\ ops[t] # <<>> /\ Head(ops[t]).op = "Unlock"
  /\ mutex' = IF Head(ops[t]).of = "ring" THEN "free" ELSE mutex
  /\ pendingMutex' = IF Head(ops[t]).of = "pending" THEN "free" ELSE pendingMutex
  /\ tableMutex' = IF Head(ops[t]).of = "table" THEN "free" ELSE tableMutex
  /\ ops' = [ops EXCEPT ![t] = Tail(ops[t])]
  /\ UNCHANGED <<ids, nodes, prob, edges, nextNode, table, pending, threshold, stopped,
                 worker, reptable, boot, added, nCalls, last, s6, calls, wk>>

NextLock ==
  \/ \E c \in Callers, f \in {"Add", "AddUnverified", "GetKey", "GetRecord"} : LockCall(c, f)
  \/ ConcStart
  \/ LockTick
  \/ \E t \in Threads : LockEnter(t)
  \/ \E t \in Threads : LockAcquire(t)
  \/ \E t \in Threads : LockRelease(t)

\* sync.Mutex hands a lock to every waiter in the end (starvation mode), and
\* the scheduler runs every goroutine that can run
SpecLockFair ==
  /\ InitLock /\ [][NextLock]_vars
  /\ \A t \in Threads : WF_ops(LockEnter(t)) /\ SF_ops(LockAcquire(t)) /\ WF_ops(LockRelease(t))

\* ------------------------------------------------------------------ claims
BootOwners == {boot[i].Owner : i \in 1 .. Len(boot)}
\* the bootstrap records name neither the root nor one owner twice
PlainBoot ==
  /\ Source \notin BootOwners
  /\ \A i, j \in 1 .. Len(boot) : boot[i].Owner = boot[j].Owner => i = j
AllNames == Names \cup {"ghost"}

\* C1: in every reachable state and for every name, GetKey(name) reports
\* present exactly when the key table holds a record for name whose
\* confidence is at least the threshold, and the key it then returns is the
\* key stored in that record.
C1_GetKeyThreshold ==
  \A name \in AllNames :
    LET k == GetKey(table, threshold, name)
    IN /\ k.ok <=> (name \in DOMAIN table /\ ~RLt(table[name].Confidence, threshold))
       /\ k.ok => k.key = table[name].KeyPub

\* a state after an operation where GetKey answers for one name, refuses a
\* recorded name for its confidence, and knows nothing of a third
C1_Witness ==
  /\ last.op \in {"Add", "updateConfidence"}
  /\ \E n \in DOMAIN table : GetKey(table, threshold, n).ok
  /\ \E n \in DOMAIN table : ~GetKey(table, threshold, n).ok
  /\ \E n \in DOMAIN ids : n \notin DOMAIN table

\* C2: the root's record in the key table has confidence exactly 1.0 in
\* every reachable state (stated for rings whose bootstrap records do not
\* name the root, where it holds after construction).
C2_RootConfidenceOne ==
  Source \notin BootOwners =>
    (Source \in DOMAIN table /\ table[Source].Confidence = One)

\* C3: when Add(r, s, rep) returns (r not self-signed), either s was not a
\* known node and the ring is unchanged, or the graph holds the edge
\* (s, r.owner) carrying r.publicKey and r.owner has a record in the key
\* table.
C3_AddPostcondition ==
  [][(last'.op = "Add" /\ last'.owner # last'.origin) =>
       \/ (last'.origin \notin DOMAIN ids /\ UNCHANGED ringVars)
       \/ /\ last'.origin \in DOMAIN ids'
          /\ last'.owner \in DOMAIN ids'
          /\ <<ids'[last'.origin], ids'[last'.owner]>> \in DOMAIN edges'
          /\ edges'[<<ids'[last'.origin], ids'[last'.owner]>>] = last'.key
          /\ last'.owner \in DOMAIN table']_vars

\* C4: an Add whose signer is not a node of the graph, or whose record is
\* signed by its own owner, leaves the nodes, the probabilities, the edges,
\* the key table and the pending queue unchanged, and every GetKey answer
\* as it was.
C4_RejectedAddNoOp ==
  [][(last'.op = "Add" /\ (last'.origin \notin DOMAIN ids \/ last'.owner = last'.origin)) =>
       /\ UNCHANGED ringVars
       /\ \A n \in AllNames :
            GetKey(table', threshold', n) = GetKey(table, threshold, n)]_vars

\* an Add signed by an unknown name has returned on a ring that carries
\* edges, and so has a self-signed one
C4_Witness ==
  /\ last.op = "Add"
  /\ DOMAIN edges # {}
  /\ \/ last.origin \notin DOMAIN ids
     \/ (last.owner = last.origin /\ last.owner \in DOMAIN ids /\ prob[ids[last.owner]] # Zero)

\* C5: the key table answers absent for a name add was never called for,
\* and right after add(rec) it answers present for rec.owner with the
\* public key of rec.
C5_KeyTableRoundTrip ==
  /\ \A n \in Names : n \notin added => ~GetRecord(table, n).ok
  /\ last.op = "keyTable.add" =>
       /\ GetRecord(table, last.owner).ok
       /\ GetRecord(table, last.owner).rec.KeyPub = last.key

\* a low-confidence record was just added, other names were added before
\* and some name was never added
C5_Witness ==
  /\ last.op = "keyTable.add"
  /\ Cardinality(added) >= 2
  /\ \E n \in Names : n \notin added
  /\ table[last.owner].Confidence = Quarter

C7_TwoHopAttestation ==
  (/\ last.op = "Add"
   /\ last.fresh
   /\ last.rep = Half
   /\ threshold = Half
   /\ PlainBoot
   /\ last.origin \in BootOwners
   /\ prob[ids[last.origin]] = One) =>
    /\ <<ids[Source], ids[last.origin], ids[last.owner]>>
         \in AllBetween(Graph, DijkstraAllPaths(Graph, ids[Source]),
                        ids[Source], ids[last.owner])
    /\ GetRecord(table, last.owner).ok
    /\ GetRecord(table, last.owner).rec.Confidence = One
    /\ GetKey(table, threshold, last.owner) = [key |-> last.key, ok |-> TRUE]

\* C8: AddUnverified enqueued a correctly signed message of X about Y while
\* X was unknown and GetKey(Y) absent, then Add({X, K_X}, root, 1.0) ran,
\* then the updater ran updatePending and finished its tick (s6.stage = 4):
\* Y is in the graph and in the key table and GetKey(Y) is present.
C8_PendingReplay ==
  s6.stage = 4 =>
    /\ s6.y \in DOMAIN ids
    /\ s6.y \in DOMAIN table
    /\ GetKey(table, threshold, s6.y).ok

\* C9: AddUnverified(msg) puts msg at the back of the pending queue, the
\* earlier messages keeping their order, and leaves the nodes, the edges,
\* the probabilities and the key table as they were.
C9_AddUnverifiedFrame ==
  [][last'.op = "AddUnverified" =>
       /\ pending' = pending \o <<[Origin |-> last'.origin, Owner |-> last'.owner,
                                   KeyBytes |-> last'.key, Sig |-> last'.sign]>>
       /\ UNCHANGED <<ids, nodes, prob, edges, nextNode, table>>]_vars

\* AddUnverified has returned with an earlier, different message ahead of
\* the new one
C9_Witness ==
  /\ last.op = "AddUnverified"
  /\ Len(pending) = 2
  /\ pending[1] # pending[2]
  /\ pending[2].Origin = last.origin

\* C10: the root is a node of the graph with trust probability exactly 1.0
\* in every reachable state.
C10_RootProbabilityOne ==
  /\ Source \in DOMAIN ids
  /\ ids[Source] \in nodes
  /\ prob[ids[Source]] = One

\* C15: an Add issued after Stop leaves the confidence of every record of
\* the key table as it was before the call.
C15_AddAfterStopKeepsConfidence ==
  [][(stopped /\ last'.op = "Add") =>
       \A n \in DOMAIN table :
         n \in DOMAIN table' /\ table'[n].Confidence = table[n].Confidence]_vars

\* C16: every record of the key table other than the root's holds a
\* confidence between 0 and 1 (the reputations of the oracle and of Add and
\* the declared confidences all lie in [0, 1]).
C16_ConfidenceInUnitInterval ==
  \A n \in DOMAIN table \ {Source} :
    /\ ~RLt(table[n].Confidence, Zero)
    /\ ~RLt(One, table[n].Confidence)

\* the updater has recomputed the confidences after updateTrust ran with
\* an oracle, and a record other than the root's holds a confidence
\* strictly between 0 and 1 that comes from an internal node of its path
C16_Witness ==
  /\ last.op = "updateConfidence"
  /\ reptable = "table"
  /\ \E n \in DOMAIN table \ {Source} :
       /\ RLt(Zero, table[n].Confidence)
       /\ RLt(table[n].Confidence, One)
       /\ \E m \in DOMAIN ids : m # n /\ prob[ids[m]] = table[n].Confidence

\* C19: whatever the graph, selectBestPaths has one possible result for the
\* shortest paths to a target: when keys tie, the same key is chosen and
\* the same paths are retained every time.
C19_TieBreakDeterministic ==
  \A n \in DOMAIN ids :
    Cardinality(selectBestPaths(Graph,
      AllBetween(Graph, DijkstraAllPaths(Graph, ids[Source]), ids[Source], ids[n]))) = 1

\* C20: the record of every bootstrap entry holds the confidence the caller
\* declared for it, in every reachable state (bootstrap records naming
\* neither the root nor one owner twice).
C20_BootstrapConfidenceKept ==
  PlainBoot =>
    \A i \in 1 .. Len(boot) :
      /\ boot[i].Owner \in DOMAIN table
      /\ table[boot[i].Owner].Confidence = boot[i].Confidence

\* the shortest paths from the source to a name
ShortestPaths(n) ==
  AllBetween(Graph, DijkstraAllPaths(Graph, ids[Source]), ids[Source], ids[n])

\* C17: on a frozen graph a second updateConfidence leaves the key table
\* exactly as the first one left it, confidences and keys.
C17_UpdateConfidenceIdempotent ==
  \A t1 \in updateConfidence(Graph, table) : updateConfidence(Graph, t1) = {t1}

\* C18: for every target other than the root with a shortest path, the key
\* selectBestPaths hands to the key table is asserted by the last edge of as
\* many shortest paths as any other key, and the paths it retains are
\* exactly the shortest paths whose last edge carries that key.
C18_WinningKey ==
  \A n \in DOMAIN ids \ {Source} :
    LET paths == ShortestPaths(n)
        count(k) == Cardinality({p \in paths : lastEdgeKey(Graph, p) = k})
    IN paths # {} =>
         \A b \in selectBestPaths(Graph, paths) :
           /\ \A p \in paths : count(lastEdgeKey(Graph, p)) <= count(b.key)
           /\ b.paths = {p \in paths : lastEdgeKey(Graph, p) = b.key}

\* C14: once the stopped flag is set the updater begins no update phase at
\* a tick boundary and its loop exits in the end; a tick in progress when
\* Stop is called still runs its remaining phases.
C14_StopCancelsUpdater ==
  /\ [][(stopped /\ worker = "wait") => worker' \in {"wait", "exited"}]_vars
  /\ [][(stopped /\ worker \in {"trust", "pending", "conf"}) => worker' # "exited"]_vars
  /\ (worker \in {"trust", "pending", "conf"}) ~> (worker = "wait")
  /\ (stopped /\ worker # "none") ~> (worker = "exited")

\* Stop was called while a tick was in progress
C14_Witness ==
  /\ last.op = "Stop"
  /\ stopped
  /\ worker \in {"trust", "pending", "conf"}

\* an Add that has written the owner's node and has not yet returned
MidAdd(c) ==
  calls[c].op = "Add"
    /\ calls[c].pc \in {"addEdge", "phi", "addNode", "updateConfidence", "confidence"}

\* C11: Add's graph mutation and confidence recomputation are atomic: while an
\* Add is between its first write and its return (the owner's node may be
\* there with probability 0.0 and no edge, or with the edge and a
\* probability not yet recomputed), no step of another caller's Add and no
\* step of the updater's phases takes place; every such step is taken before
\* the Add wrote anything or after it returned.
C11_AddAtomic ==
  [][\A c \in Callers :
       MidAdd(c) =>
         /\ \A d \in Callers \ {c} : calls'[d].op = "Add" => calls'[d] = calls[d]
         /\ worker \in {"trust", "pending", "conf"} =>
              (worker' = worker /\ wk' = wk /\ mutex' # "worker")]_vars

\* a thread is inside AddUnverified's critical section, about to PushBack
InPush(c) == calls[c].op = "AddUnverified" /\ calls[c].pc = "push"
\* a thread has called AddUnverified and has not got past its Lock
AtLock(c) == calls[c].op = "AddUnverified" /\ calls[c].pc = "lock"
\* ring.mutex is held by an updateConfidence, the worker's or an Add's
ConfidenceHoldsMutex ==
  \/ mutex = "worker"
  \/ \E d \in Callers : mutex = d /\ calls[d].op = "Add" /\ calls[d].pc = "confidence"

\* C13, first half: AddUnverified's append and updatePending's
\* walk-and-remove exclude each other: no thread is about to PushBack while
\* the worker is inside updatePending.
C13_AppendExcludesWalk == \A c \in Callers : ~(InPush(c) /\ pendingMutex = "worker")

\* C13, second half: AddUnverified never waits for the ring mutex held by a
\* confidence recomputation: no thread stands at AddUnverified's Lock while
\* an updateConfidence holds ring.mutex.
C13_AppendNeverWaitsForRing == \A c \in Callers : ~(AtLock(c) /\ ConfidenceHoldsMutex)

\* C13: the pending queue is protected by pendingMutex alone; both halves.
C13_PendingMutexAlone == C13_AppendExcludesWalk /\ C13_AppendNeverWaitsForRing

\* The rings a serial execution produces. A serial execution starts from
\* NewKeyRing(Source, SourceKey, b) and runs, one after another and each to
\* completion, some of the Add calls issued (issued: caller -> its Add's
\* arguments, or "-"), each at most once, and, once the worker is started,
\* whole ticks of the updater between them.
NoAdd == [owner |-> "-", key |-> NilKey, origin |-> "-", rep |-> Zero]
SerialSteps(x, issued, started) ==
  UNION {{[g |-> r.g, table |-> r.table, ran |-> x.ran \cup {c}] :
            r \in Add(x.g, x.table, issued[c].owner, issued[c].key, issued[c].origin,
                       issued[c].rep)} :
           c \in {c \in Callers \ x.ran : issued[c] # NoAdd}}
  \cup
  (IF ~started THEN {}
   ELSE UNION {{[g |-> updateTrust(x.g, "table", answers), table |-> t, ran |-> x.ran] :
                   t \in updateConfidence(updateTrust(x.g, "table", answers), x.table)} :
                 answers \in [DOMAIN x.g.ids -> RepAnswers]})

RECURSIVE SerialClosure(_, _, _, _)
SerialClosure(seen, frontier, issued, started) ==
  IF frontier = {} THEN seen
  ELSE LET next == UNION {SerialSteps(x, issued, started) : x \in frontier}
       IN SerialClosure(seen \cup frontier, next \ (seen \cup frontier), issued, started)

SerialRings(b, issued, started) ==
  LET r == NewKeyRing(Source, SourceKey, b)
  IN SerialClosure({}, {[g |-> r.g, table |-> r.table, ran |-> {}]}, issued, started)

\* every answer GetKey gives on a ring of a serial execution
SerialAnswers ==
  UNION {{<<b, thr, issued, started, n, GetKey(x.table, thr, n)>> :
            x \in SerialRings(b, issued, started), n \in Names} :
          b \in ConcBootLists, thr \in Thresholds,
          issued \in [Callers -> ConcAdds \cup {NoAdd}], started \in BOOLEAN}

\* the Add calls issued so far, by caller
Issued ==
  [c \in Callers |->
     IF calls[c].op = "Add"
     THEN [owner |-> calls[c].owner, key |-> calls[c].key, origin |-> calls[c].origin,
           rep |-> calls[c].rep]
     ELSE NoAdd]

\* C12: whatever the interleaving of the callers' Adds and the updater's
\* ticks, the answer GetKey gives for any name in the current state is an
\* answer it gives on a ring that a serial execution of a subset of the Add
\* calls issued so far produces.
C12_GetKeySerializable ==
  \A n \in Names :
    <<boot, threshold, Issued, worker # "none", n, GetKey(table, threshold, n)>>
      \in SerialAnswers

\* C12 witness: both callers are inside an Add after its first write, the
\* worker is in the middle of an updateTrust iteration, and GetKey already
\* answers differently from what it answered on the constructed ring.
C12_Witness ==
  /\ MidAdd("c1") /\ MidAdd("c2")
  /\ worker = "trust" /\ wk.name # "-"
  /\ \E n \in Names :
       GetKey(table, threshold, n)
         # GetKey(NewKeyRing(Source, SourceKey, boot).table, threshold, n)

\* the names of g no path leads to from the root
Disconnected(g) ==
  {n \in DOMAIN g.ids : DijkstraFrom(g, g.ids[Source])[g.ids[n]] = -1}

\* a step in which an updateConfidence ran to its end: the worker's, or the
\* one that closes an accepted Add
RanUpdateConfidence ==
  \/ last'.op = "updateConfidence"
  \/ /\ last'.op = "Add" /\ ~last'.fatal
     /\ contains(Graph, last'.origin) /\ last'.owner # last'.origin

\* C21: whenever updateConfidence completes, every identity of the key table
\* that no path reaches from the root has confidence 0 and the key it had
\* before, and GetKey refuses it for every threshold above 0.
C21_DisconnectedConfidenceZero ==
  [][RanUpdateConfidence =>
       \A n \in DOMAIN table' \cap Disconnected(Graph') :
         /\ table'[n].Confidence = Zero
         /\ table'[n].KeyPub = table[n].KeyPub
         /\ \A thr \in {Quarter, Half, One} : ~GetKey(table', thr, n).ok]_vars

\* C21 witness: the worker's updateConfidence has just run on a ring whose
\* key table holds a bootstrap owner that no path reaches from the root.
C21_Witness ==
  /\ last.op = "updateConfidence"
  /\ \E n \in DOMAIN table \cap Disconnected(Graph) :
       n # Source /\ table[n].Confidence = Zero /\ table[n].KeyPub # ZeroKey

\* a queued message updateMessage can never act on: its key deserializes and
\* its signer has no key-table record (Add and the updater create none)
SignerUnknown(m) == ~DeserializeKey(m.KeyBytes).err /\ m.Origin \notin DOMAIN table
\* a queued message updateMessage returns true for at once
Undecodable(m) == DeserializeKey(m.KeyBytes).err

\* C22: updatePending removes exactly the messages it marked: after the walk
\* the messages whose signer's key is not available are all still queued, in
\* their original relative order, whatever their position, and a message
\* updateMessage returned true for is gone.
C22_RemovesExactlyMarked ==
  [][(last'.op = "updatePending" /\ ~last'.fatal) =>
       /\ SelectSeq(pending', SignerUnknown) = SelectSeq(pending, SignerUnknown)
       /\ SelectSeq(pending', Undecodable) = <<>>]_vars

\* C23: in pending replay a message whose signer's key GetKey gives and whose
\* signature does not verify under it is marked for removal (updateMessage
\* returns true) and leaves the ring as it was; updateMessage returns false
\* only when GetKey does not give the signer's key.
C23_RejectedIsMarked ==
  worker = "pending" =>
    \A i \in 1 .. Len(pending) :
      LET msg == pending[i]
          d == DeserializeKey(msg.KeyBytes)
          k == GetKey(table, threshold, msg.Origin)
      IN \A u \in updateMessage(Graph, table, threshold, msg, One) :
           /\ (~d.err /\ k.ok /\ ~Verify(msg, k.key)) =>
                (u.ok /\ u.g = Graph /\ u.table = table)
           /\ ~u.ok => ~k.ok

\* C24: the updater touches the graph and the name index only under the ring
\* mutex: while updateTrust's range over the name index is in progress no
\* caller thread's addNode inserts a name into that index.
C24_TrustRangeExcludesInsertion ==
  [][worker = "trust" => DOMAIN ids' = DOMAIN ids]_vars

\* the reputations updateTrust may work with: 0.5 without an oracle or without
\* an answer, else what the oracle answered
TrustReputations(rt) ==
  IF rt = "nil" THEN {Half}
  ELSE {Half} \cup {a.rep : a \in {a \in RepAnswers : a.present}}

\* min(1 / dist, 2 * r), dist the hop distance d with 0 read as 1; no path
\* (d = -1) is an infinite distance
TrustOf(d, r) ==
  IF d = -1 THEN Zero
  ELSE LET inv == Rat(1, IF d = 0 THEN 1 ELSE d)
           twice == Rat(2 * r[1], r[2])
       IN IF RLt(twice, inv) THEN twice ELSE inv

C26_OneNodePerIdentity ==
  /\ \A v \in nodes : Cardinality({n \in DOMAIN ids : ids[n] = v}) = 1
  /\ \A n, m \in DOMAIN ids : ids[n] = ids[m] => n = m
  /\ \A n \in DOMAIN ids : ids[n] \in nodes
  /\ \A n \in DOMAIN ids : \A p \in {Zero, Half} :
       addNode(Graph, n, p) = [Graph EXCEPT !.prob = [@ EXCEPT ![ids[n]] = p]]
  /\ lastNode(Graph) + 1 \notin nodes

\* the thread a thread is waiting for: the holder of the mutex its Lock is
\* blocked on; itself ("-") when it is not blocked
Blocked(t) ==
  ops[t] # <<>> /\ Head(ops[t]).op = "Lock" /\ Holder(Head(ops[t]).of) # "free"
WaitsFor(t) == IF Blocked(t) THEN Holder(Head(ops[t]).of) ELSE "-"

\* the threads that can go on: those not blocked, and those waiting for a
\* thread that can go on
RECURSIVE CanGoOn(_)
CanGoOn(S) ==
  LET more == S \cup {t \in Threads : WaitsFor(t) \in S}
  IN IF more = S THEN S ELSE CanGoOn(more)

\* C27: no deadlock: in every state every thread either can take its next
\* step or waits, through a chain of lock holders, for a thread that can; in
\* particular no thread asks for a mutex it holds and no two threads wait
\* for each other. And under fair scheduling no thread waits forever: every
\* call a thread has begun returns.
C27_NoDeadlock ==
  /\ [](CanGoOn({t \in Threads : ~Blocked(t)}) = Threads)
  /\ [](\A t \in Threads : WaitsFor(t) # t)
  /\ \A t \in Threads : (ops[t] # <<>>) ~> (ops[t] = <<>>)

\* C27 witness: the worker is inside updatePending, holds pendingMutex and
\* waits in its own Add for the ring mutex, which a caller's updateConfidence
\* holds while it waits for the key-table lock held by another caller's GetKey.
C27_Witness ==
  /\ pendingMutex = "worker" /\ WaitsFor("worker") = "c1"
  /\ mutex = "c1" /\ WaitsFor("c1") = "c2"
  /\ tableMutex = "c2"

\* the graph nodes of the root identity: the node NewKeyRing creates for the
\* owner, from which the bootstrap edges start, and the node the index names
RootNodes == {0, ids[Source]}

\* b has a key-table record whose key is the one an edge root -> b carries
RootAttested(b) ==
  /\ b \in DOMAIN table /\ b \in DOMAIN ids /\ b # Source
  /\ \E r \in RootNodes :
       <<r, ids[b]>> \in DOMAIN edges /\ edges[<<r, ids[b]>>] = table[b].KeyPub

\* C28: a key the root attests directly is not displaced by other signers:
\* when an edge root -> B carries the key stored for B, an Add whose signer
\* is not the root, or a step of a tick, leaves the key stored for B as it is.
C28_RootAttestedKeyKept ==
  [][\A b \in Names :
       (/\ RootAttested(b)
        /\ \/ last'.op = "Add" /\ last'.origin # Source
           \/ last'.op \in {"updateTrust", "updatePending", "updateConfidence"})
         => table'[b].KeyPub = table[b].KeyPub]_vars

====
